---- MODULE Spec2Model ----
(***************************************************************************)
(* PyVault: the password generator (src/src/utils/password_generator.py),  *)
(* its preset catalog as the generator screens use it, and the category    *)
(* manager (src/src/category_manager.py) and the vault service              *)
(* (src/src/services/vault_service.py).                                    *)
(*                                                                         *)
(* Strings are sequences of one-character strings.  The canonical pools    *)
(* are order-preserving sub-strings of the source's pools: every class     *)
(* keeps a character that no filter touches, UPPERCASE keeps an ambiguous  *)
(* character ("O") and the confusable group "8B" spans two classes.        *)
(* Entropy is kept in thousandths of a bit (integers).                     *)
(***************************************************************************)
EXTENDS Integers, Sequences, FiniteSets, TLC

VARIABLES
    config,        \* PasswordGenerator.config: the caller's object, bound by reference
    given_empty,   \* history: the object last handed to __init__/update_config had no class enabled
    pc,            \* position of generate_password: "idle", "loop", "returned", "raised"
    max_attempts,  \* generate_password's argument, while the call runs
    attempt,       \* the for-loop's index, while the call runs
    composed,      \* history: calls of _generate_password_attempt made by the last call
    result,        \* the PasswordResult returned by the last call (NoResult before/without one)
    outcome,       \* history: the return statement the last call left by ("none" before/without one)
    PRESETS,       \* the module-level catalog: preset name -> its PasswordConfig object
    bound,         \* the object config is: "own" (the caller's own object) or the preset of that name
    scored,        \* one evaluation of the entropy scorer: its inputs and what it has computed
    categories,    \* CategoryManager.categories: id -> Category
    uuids,         \* how many ids uuid.uuid4() has handed out
    last_call,     \* history: the last CategoryManager call, its target and how it ended
    key,           \* VaultService.key: <<>> for None, <<password>> for the key derived from it
    vault,         \* VaultService.vault: <<>> for None, <<v>> for the Vault v
    vault_exists,  \* VaultService.vault_exists
    vault_file,    \* the file at config.VAULT_FILE
    service_call,  \* history: the last VaultService call and how it ended
    locked,        \* history: lock() was called and no unlock_or_create has returned True since
    filtering,     \* one application of _get_filtered_chars: its inputs and what it returned
    shuffling      \* the shuffle loop of one attempt: the list, the loop index, the draws made

gen_vars == <<config, given_empty, pc, max_attempts, attempt, composed, result, outcome>>

catalog_vars == <<PRESETS, bound>>

score_vars == <<scored>>

category_vars == <<categories, uuids, last_call>>

vault_vars == <<key, vault, vault_exists, vault_file, service_call, locked>>

step_vars == <<filtering, shuffling>>

vars == <<gen_vars, catalog_vars, score_vars, category_vars, vault_vars, step_vars>>

---------------------------------------------------------------------------
(* Bounds of the model *)

MaxLen == 2        \* largest max_length a caller passes to PasswordConfig
MaxCount == 2      \* largest min_* count a caller sets; max_* counts stay below it
MaxAttempts == 2   \* largest max_attempts a caller passes to generate_password
MaxScored == 4     \* longest password handed to the entropy scorer on its own
MaxUuids == 2      \* ids uuid.uuid4() hands out before the model stops creating categories
MaxEntries == 2    \* entries a vault holds before the model stops adding
MaxPool == 3       \* longest pool handed to the filter on its own
MaxShuffle == 3    \* longest list handed to the shuffle loop on its own

---------------------------------------------------------------------------
(* Strings *)

Chars(s) == {s[i] : i \in DOMAIN s}

In(c, s) == c \in Chars(s)

Remove(s, bad) == SelectSeq(s, LAMBDA c : ~In(c, bad))

RECURSIVE JoinAll(_)
JoinAll(ss) == IF ss = <<>> THEN <<>> ELSE Head(ss) \o JoinAll(Tail(ss))

---------------------------------------------------------------------------
(* Class constants of PasswordGenerator *)

UPPERCASE == <<"B", "O">>
LOWERCASE == <<"a">>
NUMBERS == <<"8">>
SPECIAL_DEFAULT == <<"!">>

AMBIGUOUS == <<"0", "O", "o", "I", "l", "1">>

SIMILAR_GROUPS == <<
    <<"i", "l", "1", "|">>,
    <<"O", "0", "o">>,
    <<"5", "S", "$">>,
    <<"G", "6">>,
    <<"8", "B">>,
    <<"2", "Z">>,
    <<"v", "w">>,
    <<"m", "n">> >>

Classes == <<"uppercase", "lowercase", "numbers", "special">>

ClassSet == {"uppercase", "lowercase", "numbers", "special"}

None == -1

\* PasswordStrength
VERY_WEAK == 0
WEAK == 1
FAIR == 2
GOOD == 3
STRONG == 4
EXCELLENT == 5

---------------------------------------------------------------------------
(* PasswordConfig *)

DefaultConfig == [
    length |-> 16, min_length |-> 4, max_length |-> 128,
    use_uppercase |-> TRUE, use_lowercase |-> TRUE,
    use_numbers |-> TRUE, use_special |-> TRUE,
    min_uppercase |-> 0, min_lowercase |-> 0, min_numbers |-> 0, min_special |-> 0,
    max_uppercase |-> None, max_lowercase |-> None,
    max_numbers |-> None, max_special |-> None,
    exclude_ambiguous |-> FALSE, exclude_similar |-> FALSE,
    custom_excluded |-> <<>>,
    special_chars |-> SPECIAL_DEFAULT ]

Max2(a, b) == IF a >= b THEN a ELSE b

Min2(a, b) == IF a <= b THEN a ELSE b

\* variant: the requested length is kept as it is
post_init_unclamped(c) == c

\* __post_init__: the length is clamped into [min_length, max_length]
post_init(c) == [c EXCEPT !.length = Max2(c.min_length, Min2(c.max_length, c.length))]

\* PasswordConfig(**kw): the keyword arguments over the defaults, then __post_init__
PasswordConfig(kw) ==
    post_init([f \in DOMAIN DefaultConfig |-> IF f \in DOMAIN kw THEN kw[f] ELSE DefaultConfig[f]])

Use(c, cls) ==
    CASE cls = "uppercase" -> c.use_uppercase
      [] cls = "lowercase" -> c.use_lowercase
      [] cls = "numbers" -> c.use_numbers
      [] cls = "special" -> c.use_special

MinOf(c, cls) ==
    CASE cls = "uppercase" -> c.min_uppercase
      [] cls = "lowercase" -> c.min_lowercase
      [] cls = "numbers" -> c.min_numbers
      [] cls = "special" -> c.min_special

MaxOf(c, cls) ==
    CASE cls = "uppercase" -> c.max_uppercase
      [] cls = "lowercase" -> c.max_lowercase
      [] cls = "numbers" -> c.max_numbers
      [] cls = "special" -> c.max_special

\* the canonical pool a class is drawn from
Pool(c, cls) ==
    CASE cls = "uppercase" -> UPPERCASE
      [] cls = "lowercase" -> LOWERCASE
      [] cls = "numbers" -> NUMBERS
      [] cls = "special" -> c.special_chars

---------------------------------------------------------------------------
(* Character sets and filters *)

\* variant: the group is left as it is
collapse_group_keeping_all(filtered, group) == filtered

\* one pass of the exclude_similar loop: keep only the first character of the
\* group (in the group's order) that the pool holds, appended at the end
collapse_group(filtered, group) ==
    IF \E c \in Chars(group) : In(c, filtered)
    THEN LET k == CHOOSE i \in DOMAIN group :
                      /\ In(group[i], filtered)
                      /\ \A j \in 1..(i - 1) : ~In(group[j], filtered)
         IN  Append(Remove(filtered, group), group[k])
    ELSE filtered

RECURSIVE collapse_similar(_, _)
collapse_similar(filtered, groups) ==
    IF groups = <<>> THEN filtered
    ELSE collapse_similar(collapse_group(filtered, Head(groups)), Tail(groups))

\* _get_filtered_chars
get_filtered_chars(c, chars) ==
    LET f1 == IF c.exclude_ambiguous THEN Remove(chars, AMBIGUOUS) ELSE chars
        f2 == IF c.exclude_similar THEN collapse_similar(f1, SIMILAR_GROUPS) ELSE f1
        f3 == IF c.custom_excluded # <<>> THEN Remove(f2, c.custom_excluded) ELSE f2
    IN  f3

\* _get_available_character_sets: the enabled classes whose filtered pool is not
\* empty, in insertion order
AvailableClasses(c) ==
    SelectSeq(Classes, LAMBDA cls : Use(c, cls) /\ get_filtered_chars(c, Pool(c, cls)) # <<>>)

get_available_character_sets(c) ==
    [i \in DOMAIN AvailableClasses(c) |-> get_filtered_chars(c, Pool(c, AvailableClasses(c)[i]))]

\* char_sets.get(cls): falsy when the class is absent
HasChars(c, cls) == \E i \in DOMAIN AvailableClasses(c) : AvailableClasses(c)[i] = cls

---------------------------------------------------------------------------
(* Distribution and post-check *)

\* variant: the special class is recognised by the default pool
ClassOfChar_default_special(c, ch) ==
    IF In(ch, UPPERCASE) THEN "uppercase"
    ELSE IF In(ch, LOWERCASE) THEN "lowercase"
    ELSE IF In(ch, NUMBERS) THEN "numbers"
    ELSE IF In(ch, SPECIAL_DEFAULT) THEN "special"
    ELSE "other"

ClassOfChar(c, ch) ==
    IF In(ch, UPPERCASE) THEN "uppercase"
    ELSE IF In(ch, LOWERCASE) THEN "lowercase"
    ELSE IF In(ch, NUMBERS) THEN "numbers"
    ELSE IF In(ch, c.special_chars) THEN "special"
    ELSE "other"

DistKeys == ClassSet \cup {"other"}

\* _get_character_distribution
get_character_distribution(c, password) ==
    [k \in DistKeys |-> Cardinality({i \in DOMAIN password : ClassOfChar(c, password[i]) = k})]

\* variant: the maximum checks are left out
satisfies_constraints_ignoring_max(c, password) ==
    LET distribution == get_character_distribution(c, password)
    IN  \A cls \in ClassSet : ~(MinOf(c, cls) > 0 /\ distribution[cls] < MinOf(c, cls))

\* _satisfies_constraints
satisfies_constraints(c, password) ==
    LET distribution == get_character_distribution(c, password)
    IN  /\ \A cls \in ClassSet : ~(MinOf(c, cls) > 0 /\ distribution[cls] < MinOf(c, cls))
        /\ \A cls \in ClassSet : ~(MaxOf(c, cls) # None /\ distribution[cls] > MaxOf(c, cls))

---------------------------------------------------------------------------
(* One attempt: the strings _generate_password_attempt can return *)

\* n draws of secrets.choice(chars): no draw sequence exists when chars is empty
Draws(chars, n) == IF n <= 0 THEN {<<>>} ELSE [1..n -> Chars(chars)]

\* sum of the four min_* fields, enabled or not
AllMins(c) == c.min_uppercase + c.min_lowercase + c.min_numbers + c.min_special

actual_length(c) == Max2(c.length, AllMins(c))

\* variant: the minimums are drawn for disabled classes too
RECURSIVE MinDraws_any_class(_, _)
MinDraws_any_class(c, classes) ==
    IF classes = <<>> THEN {<<>>}
    ELSE LET cls == Head(classes)
             rest == MinDraws_any_class(c, Tail(classes))
         IN  IF MinOf(c, cls) > 0
             THEN {d \o r : d \in Draws(get_filtered_chars(c, Pool(c, cls)), MinOf(c, cls)),
                            r \in rest}
             ELSE rest

\* the minimum-mandated characters, class after class
RECURSIVE MinDraws(_, _)
MinDraws(c, classes) ==
    IF classes = <<>> THEN {<<>>}
    ELSE LET cls == Head(classes)
             rest == MinDraws(c, Tail(classes))
         IN  IF Use(c, cls) /\ MinOf(c, cls) > 0
             THEN {d \o r : d \in Draws(get_filtered_chars(c, Pool(c, cls)), MinOf(c, cls)),
                            r \in rest}
             ELSE rest

\* variant: the fill pool is joined from the unfiltered pools
all_chars_unfiltered(c) ==
    JoinAll([i \in DOMAIN AvailableClasses(c) |-> Pool(c, AvailableClasses(c)[i])])

\* the pool the fill characters are drawn from
all_chars(c) == get_filtered_chars(c, JoinAll(get_available_character_sets(c)))

\* len(password_chars) after the minimum draws
EnabledMins(c) ==
    (IF c.use_uppercase THEN c.min_uppercase ELSE 0) +
    (IF c.use_lowercase THEN c.min_lowercase ELSE 0) +
    (IF c.use_numbers THEN c.min_numbers ELSE 0) +
    (IF c.use_special THEN c.min_special ELSE 0)

\* password_chars before the shuffle, for every outcome of the draws
Assembled(c) ==
    {m \o f : m \in MinDraws(c, Classes),
              f \in Draws(all_chars(c), actual_length(c) - EnabledMins(c))}

\* variant: position i takes the partner's character, the partner keeps its own
Swap_overwriting(l, i, j) == [l EXCEPT ![i] = l[j]]

Swap(l, i, j) == [l EXCEPT ![i] = l[j], ![j] = l[i]]

\* the shuffle loop from position i on: position i is swapped with position
\* j = secrets.randbelow(len(password_list)), for every outcome of the draw
RECURSIVE shuffle_image(_, _, _)
shuffle_image(S, i, n) ==
    IF i > n THEN S
    ELSE shuffle_image({Swap(l, i, j) : l \in S, j \in 1..n}, i + 1, n)

\* password_list[:length] when the list is longer than length
Truncate(l, length) == SubSeq(l, 1, Min2(Len(l), length))

\* secrets.choice is applied to an empty sequence: IndexError
attempt_raises(c) ==
    /\ get_available_character_sets(c) # <<>>
    /\ Assembled(c) = {}

\* _generate_password_attempt: the strings it can return
generate_password_attempt(c) ==
    IF get_available_character_sets(c) = <<>> THEN {<<>>}
    ELSE {Truncate(l, c.length) : l \in shuffle_image(Assembled(c), 1, actual_length(c))}

---------------------------------------------------------------------------
(* Entropy and strength *)

\* math.log2 in thousandths, for 1..8
Log2Milli(n) == <<0, 1000, 1585, 2000, 2322, 2585, 2807, 3000>>[n]

\* ord()
Ord(ch) ==
    CASE ch = "!" -> 33
      [] ch = "7" -> 55
      [] ch = "8" -> 56
      [] ch = "9" -> 57
      [] ch = "B" -> 66
      [] ch = "O" -> 79
      [] ch = "a" -> 97
      [] ch = "~" -> 126

\* sequential_count of _calculate_sequential_penalty
sequential_count(password) ==
    Cardinality({i \in 1..(Len(password) - 2) :
        Ord(password[i + 1]) = Ord(password[i]) + 1 /\ Ord(password[i + 2]) = Ord(password[i + 1]) + 1})
    + Cardinality({i \in 1..(Len(password) - 2) :
        Ord(password[i + 1]) = Ord(password[i]) - 1 /\ Ord(password[i + 2]) = Ord(password[i + 1]) - 1})

\* variant: the fraction of sequential windows, without the cap
calculate_sequential_penalty_uncapped(password) ==
    IF Len(password) < 3 THEN <<0, 1>>
    ELSE <<sequential_count(password), Len(password) - 2>>

\* _calculate_sequential_penalty as a fraction <<numerator, denominator>>
calculate_sequential_penalty(password) ==
    IF Len(password) < 3 THEN <<0, 1>>
    ELSE LET cnt == sequential_count(password)
             max_possible_sequences == Len(password) - 2
         IN  IF 2 * cnt >= max_possible_sequences THEN <<1, 2>>
             ELSE <<cnt, max_possible_sequences>>

\* _adjust_entropy_for_patterns
adjust_entropy_for_patterns(password, base_entropy) ==
    LET unique_chars == Cardinality(Chars(password))
        a1 == IF unique_chars < Len(password)
              THEN (base_entropy * unique_chars) \div Len(password)
              ELSE base_entropy
        pen == calculate_sequential_penalty(password)
        a2 == (a1 * (pen[2] - pen[1])) \div pen[2]
    IN  Max2(0, a2)

\* variant: a boundary value belongs to the lower level
entropy_to_strength_boundary_below(entropy) ==
    IF entropy <= 25000 THEN VERY_WEAK
    ELSE IF entropy <= 35000 THEN WEAK
    ELSE IF entropy <= 50000 THEN FAIR
    ELSE IF entropy <= 70000 THEN GOOD
    ELSE IF entropy <= 90000 THEN STRONG
    ELSE EXCELLENT

\* _entropy_to_strength, entropy in thousandths of a bit
entropy_to_strength(entropy) ==
    IF entropy < 25000 THEN VERY_WEAK
    ELSE IF entropy < 35000 THEN WEAK
    ELSE IF entropy < 50000 THEN FAIR
    ELSE IF entropy < 70000 THEN GOOD
    ELSE IF entropy < 90000 THEN STRONG
    ELSE EXCELLENT

\* _calculate_strength_and_entropy: <<strength, entropy>>
calculate_strength_and_entropy(c, password) ==
    IF password = <<>> THEN <<VERY_WEAK, 0>>
    ELSE LET charset_size == Len(JoinAll(get_available_character_sets(c)))
         IN  IF charset_size = 0 THEN <<VERY_WEAK, 0>>
             ELSE LET entropy == adjust_entropy_for_patterns(password,
                                     Len(password) * Log2Milli(charset_size))
                  IN  <<entropy_to_strength(entropy), entropy>>

---------------------------------------------------------------------------
(* Validation *)

NoneEnabled(c) ==
    ~(c.use_uppercase \/ c.use_lowercase \/ c.use_numbers \/ c.use_special)

\* variant: the configuration is bound as it is given
validate_config_as_given(c) == c

\* _validate_config: Lowercase is switched on in the bound object itself
validate_config(c) ==
    IF NoneEnabled(c) THEN [c EXCEPT !.use_lowercase = TRUE] ELSE c

\* a warning text: its kind and the values formatted into it
Warning(kind, cls, n, m) == [kind |-> kind, cls |-> cls, n |-> n, m |-> m]

NoCharsWarnings(c) ==
    LET cs == SelectSeq(Classes, LAMBDA cls : Use(c, cls) /\ ~HasChars(c, cls))
    IN  [i \in DOMAIN cs |-> Warning("no_chars_after_filtering", cs[i], 0, 0)]

\* check_min_max, class after class
MinMaxWarnings(c) ==
    LET cs == SelectSeq(Classes, LAMBDA cls : MaxOf(c, cls) # None /\ MinOf(c, cls) > MaxOf(c, cls))
    IN  [i \in DOMAIN cs |-> Warning("min_exceeds_max", cs[i], MinOf(c, cs[i]), MaxOf(c, cs[i]))]

\* variant: the minimums are compared with max_length
validate_constraints_vs_max_length(c) ==
    IF NoneEnabled(c)
    THEN <<FALSE, <<Warning("no_type_enabled", "", 0, 0)>> >>
    ELSE IF EnabledMins(c) > c.max_length
    THEN <<FALSE, <<Warning("min_exceeds_length", "", EnabledMins(c), c.length)>> >>
    ELSE <<TRUE, NoCharsWarnings(c) \o MinMaxWarnings(c)>>

\* variant: the enabled classes are not counted
validate_constraints_no_type_check(c) ==
    IF EnabledMins(c) > c.length
    THEN <<FALSE, <<Warning("min_exceeds_length", "", EnabledMins(c), c.length)>> >>
    ELSE <<TRUE, NoCharsWarnings(c) \o MinMaxWarnings(c)>>

\* _validate_constraints: <<ok, warnings>>
validate_constraints(c) ==
    IF NoneEnabled(c)
    THEN <<FALSE, <<Warning("no_type_enabled", "", 0, 0)>> >>
    ELSE IF EnabledMins(c) > c.length
    THEN <<FALSE, <<Warning("min_exceeds_length", "", EnabledMins(c), c.length)>> >>
    ELSE <<TRUE, NoCharsWarnings(c) \o MinMaxWarnings(c)>>

---------------------------------------------------------------------------
(* Results *)

EmptyDistribution == [k \in {} |-> 0]

PasswordResult(password, strength, entropy, satisfied, warnings, distribution) ==
    [password |-> password, strength |-> strength, entropy |-> entropy,
     satisfied_constraints |-> satisfied, warnings |-> warnings,
     character_distribution |-> distribution]

\* no PasswordResult: before the first call, while a call runs, after a call raised
NoResult == PasswordResult(<<>>, VERY_WEAK, 0, FALSE, <<>>, EmptyDistribution)

\* the return at the failed pre-check
RejectedResult(warnings) ==
    PasswordResult(<<>>, VERY_WEAK, 0, FALSE, warnings, EmptyDistribution)

\* the return inside the loop
SatisfiedResult(c, password) ==
    LET se == calculate_strength_and_entropy(c, password)
    IN  PasswordResult(password, se[1], se[2], TRUE, <<>>, get_character_distribution(c, password))

\* variant: the return after the loop reports the constraints as satisfied
DegradedResult_flagged_satisfied(c, password, n) ==
    LET se == calculate_strength_and_entropy(c, password)
    IN  PasswordResult(password, se[1], se[2], TRUE,
                       <<Warning("attempts_exhausted", "", n, 0)>>,
                       get_character_distribution(c, password))

\* the return after the loop
DegradedResult(c, password, n) ==
    LET se == calculate_strength_and_entropy(c, password)
    IN  PasswordResult(password, se[1], se[2], FALSE,
                       <<Warning("attempts_exhausted", "", n, 0)>>,
                       get_character_distribution(c, password))

---------------------------------------------------------------------------
(* The configurations a caller constructs *)

LengthKw == {[length |-> n, min_length |-> 1, max_length |-> MaxLen] : n \in 0..(MaxLen + 1)}

FlagKw == [use_uppercase : BOOLEAN, use_lowercase : BOOLEAN,
           use_numbers : BOOLEAN, use_special : BOOLEAN]

NoKw == [k \in {} |-> 0]

OneKw ==
    {[min_uppercase |-> n] : n \in 1..MaxCount} \cup
    {[min_lowercase |-> n] : n \in 1..MaxCount} \cup
    {[min_numbers |-> n] : n \in 1..MaxCount} \cup
    {[min_special |-> n] : n \in 1..MaxCount} \cup
    {[max_uppercase |-> n] : n \in 1..(MaxCount - 1)} \cup
    {[max_lowercase |-> n] : n \in 1..(MaxCount - 1)} \cup
    {[max_numbers |-> n] : n \in 1..(MaxCount - 1)} \cup
    {[max_special |-> n] : n \in 1..(MaxCount - 1)} \cup
    {[exclude_ambiguous |-> TRUE], [exclude_similar |-> TRUE]} \cup
    {[custom_excluded |-> <<"O", "a">>]} \cup
    {[special_chars |-> <<"~">>], [special_chars |-> <<"!", "8">>]}

\* a length, the four use_* flags and at most two further keyword arguments
ConfigSpace ==
    {PasswordConfig(l @@ u @@ k1 @@ k2) :
        l \in LengthKw, u \in FlagKw, k1 \in OneKw \cup {NoKw}, k2 \in OneKw \cup {NoKw}}

---------------------------------------------------------------------------
(* The preset catalog, at the model's scale: High Security keeps all four   *)
(* classes, one and the same minimum for each and exclude_ambiguous; PIN    *)
(* keeps digits only.  Both are built with the default min_length and       *)
(* max_length, as in the source.                                            *)

PresetNames == {"High Security", "PIN"}

PRESETS_as_defined ==
    [name \in PresetNames |->
        IF name = "High Security"
        THEN PasswordConfig([length |-> 5,
                 use_uppercase |-> TRUE, use_lowercase |-> TRUE,
                 use_numbers |-> TRUE, use_special |-> TRUE,
                 min_uppercase |-> 1, min_lowercase |-> 1,
                 min_numbers |-> 1, min_special |-> 1,
                 exclude_ambiguous |-> TRUE])
        ELSE PasswordConfig([length |-> 4,
                 use_uppercase |-> FALSE, use_lowercase |-> FALSE,
                 use_numbers |-> TRUE, use_special |-> FALSE])]

---------------------------------------------------------------------------
(* The parts of the state a specification does not run *)

\* no score is being computed
NoScorer == scored = [password |-> <<>>, base_entropy |-> 0, entropy |-> None, strength |-> None]

\* no CategoryManager has been constructed
NoCategoryManager ==
    /\ categories = [id \in {} |-> 0]
    /\ uuids = 0
    /\ last_call = [op |-> "none", target |-> "", renaming |-> FALSE, ended |-> "none"]

\* no VaultService has been constructed
NoVaultService ==
    /\ key = <<>> /\ vault = <<>> /\ vault_exists = FALSE
    /\ vault_file = [state |-> "absent"]
    /\ service_call = [op |-> "none", ended |-> "none"]
    /\ locked = FALSE

\* no pool is being filtered
NoFilter ==
    filtering = [config |-> [exclude_ambiguous |-> FALSE, exclude_similar |-> FALSE,
                             custom_excluded |-> <<>>],
                 chars |-> <<>>, filtered |-> <<>>, called |-> FALSE]

\* no list is being shuffled
NoShuffle == shuffling = [password_list |-> <<>>, original |-> <<>>, i |-> 0, draws |-> <<>>]

\* no PasswordGenerator has been constructed
NoGenerator ==
    /\ config = DefaultConfig
    /\ given_empty = FALSE
    /\ pc = "idle"
    /\ max_attempts = 0
    /\ attempt = 0
    /\ composed = 0
    /\ result = NoResult
    /\ outcome = "none"
    /\ PRESETS = PRESETS_as_defined
    /\ bound = "own"

---------------------------------------------------------------------------
(* The state machine *)

Init ==
    /\ \E c \in ConfigSpace :
          /\ config = validate_config(c)
          /\ given_empty = NoneEnabled(c)
    /\ pc = "idle"
    /\ max_attempts = 0
    /\ attempt = 0
    /\ composed = 0
    /\ result = NoResult
    /\ outcome = "none"
    /\ PRESETS = PRESETS_as_defined
    /\ bound = "own"
    /\ NoScorer
    /\ NoCategoryManager
    /\ NoVaultService /\ NoFilter /\ NoShuffle

\* the catalog after c is written to the object config is: a preset the
\* generator is bound to is that very object
Aliased(c) == IF bound = "own" THEN PRESETS ELSE [PRESETS EXCEPT ![bound] = c]

\* no call of generate_password is running
Quiescent == pc = "idle"

\* the caller is done with the outcome of a call: the model keeps no record of
\* it, the next call starts from the bound configuration alone
Discard ==
    /\ pc \in {"returned", "raised"}
    /\ UNCHANGED <<config, given_empty, PRESETS, bound>>
    /\ pc' = "idle"
    /\ max_attempts' = 0
    /\ attempt' = 0
    /\ composed' = 0
    /\ result' = NoResult
    /\ outcome' = "none"

\* update_config(self.config): the caller hands its (edited) object over again
update_config ==
    /\ Quiescent
    /\ config' = validate_config(config)
    /\ given_empty' = NoneEnabled(config)
    /\ PRESETS' = Aliased(config')
    /\ UNCHANGED <<bound, pc, max_attempts, attempt, composed, result, outcome>>

\* the caller writes a use_* flag of the object the generator is bound to
EditUse(cls) ==
    /\ Quiescent
    /\ config' = CASE cls = "uppercase" -> [config EXCEPT !.use_uppercase = ~@]
                    [] cls = "lowercase" -> [config EXCEPT !.use_lowercase = ~@]
                    [] cls = "numbers" -> [config EXCEPT !.use_numbers = ~@]
                    [] cls = "special" -> [config EXCEPT !.use_special = ~@]
    /\ given_empty' = FALSE
    /\ PRESETS' = Aliased(config')
    /\ UNCHANGED <<bound, pc, max_attempts, attempt, composed, result, outcome>>

\* the range of the length spinbox: it lies within the [min_length, max_length]
\* of the configurations the caller edits (4..64 within 4..128 in the source)
SpinboxLengths == 1..MaxLen

\* the caller writes length from the spinbox
EditLength(n) ==
    /\ Quiescent
    /\ config' = [config EXCEPT !.length = n]
    /\ given_empty' = FALSE
    /\ PRESETS' = Aliased(config')
    /\ UNCHANGED <<bound, pc, max_attempts, attempt, composed, result, outcome>>

\* generate_password(n) up to the loop: the pre-check
PreCheck(c, n) ==
    /\ IF validate_constraints(c)[1]
       THEN /\ pc' = "loop"
            /\ max_attempts' = n
            /\ result' = NoResult
            /\ outcome' = "none"
       ELSE /\ pc' = "returned"
            /\ max_attempts' = 0
            /\ result' = RejectedResult(validate_constraints(c)[2])
            /\ outcome' = "Rejected"
    /\ attempt' = 0
    /\ composed' = 0

GenerateStart(n) ==
    /\ Quiescent
    /\ PreCheck(config, n)
    /\ UNCHANGED <<config, given_empty, PRESETS, bound>>

\* the call leaves by an exception
Raise ==
    /\ pc' = "raised"
    /\ composed' = composed + 1
    /\ max_attempts' = 0
    /\ attempt' = 0
    /\ result' = NoResult
    /\ outcome' = "Raised"
    /\ UNCHANGED <<config, given_empty, PRESETS, bound>>

\* variant: the result is built from a candidate composed after the check
LoopIteration_scoring_another_candidate ==
    /\ pc = "loop"
    /\ attempt < max_attempts
    /\ IF attempt_raises(config) THEN Raise
       ELSE \E password \in generate_password_attempt(config) :
              /\ composed' = composed + 1
              /\ IF satisfies_constraints(config, password)
                 THEN /\ pc' = "returned"
                      /\ \E another \in generate_password_attempt(config) :
                            result' = SatisfiedResult(config, another)
                      /\ outcome' = "Satisfied"
                      /\ max_attempts' = 0
                      /\ attempt' = 0
                 ELSE /\ attempt' = attempt + 1
                      /\ UNCHANGED <<pc, max_attempts, result, outcome>>
              /\ UNCHANGED <<config, given_empty, PRESETS, bound>>

\* one iteration of the loop
LoopIteration ==
    /\ pc = "loop"
    /\ attempt < max_attempts
    /\ IF attempt_raises(config) THEN Raise
       ELSE \E password \in generate_password_attempt(config) :
              /\ composed' = composed + 1
              /\ IF satisfies_constraints(config, password)
                 THEN /\ pc' = "returned"
                      /\ result' = SatisfiedResult(config, password)
                      /\ outcome' = "Satisfied"
                      /\ max_attempts' = 0
                      /\ attempt' = 0
                 ELSE /\ attempt' = attempt + 1
                      /\ UNCHANGED <<pc, max_attempts, result, outcome>>
              /\ UNCHANGED <<config, given_empty, PRESETS, bound>>

\* after the loop: one more candidate, returned as it is
AfterLoop ==
    /\ pc = "loop"
    /\ attempt = max_attempts
    /\ IF attempt_raises(config) THEN Raise
       ELSE \E password \in generate_password_attempt(config) :
              /\ composed' = composed + 1
              /\ pc' = "returned"
              /\ result' = DegradedResult(config, password, max_attempts)
              /\ outcome' = "Degraded"
              /\ max_attempts' = 0
              /\ attempt' = 0
              /\ UNCHANGED <<config, given_empty, PRESETS, bound>>

Next ==
    \/ update_config /\ UNCHANGED <<score_vars, category_vars, vault_vars, step_vars>>
    \/ \E cls \in ClassSet : EditUse(cls) /\ UNCHANGED <<score_vars, category_vars, vault_vars, step_vars>>
    \/ \E n \in SpinboxLengths : EditLength(n) /\ UNCHANGED <<score_vars, category_vars, vault_vars, step_vars>>
    \/ \E n \in 0..MaxAttempts : GenerateStart(n) /\ UNCHANGED <<score_vars, category_vars, vault_vars, step_vars>>
    \/ LoopIteration /\ UNCHANGED <<score_vars, category_vars, vault_vars, step_vars>>
    \/ AfterLoop /\ UNCHANGED <<score_vars, category_vars, vault_vars, step_vars>>
    \/ Discard /\ UNCHANGED <<score_vars, category_vars, vault_vars, step_vars>>

Spec == Init /\ [][Next]_vars

---------------------------------------------------------------------------
(* The generator bound to objects of the catalog *)

\* PasswordGenerator(PRESETS[name])
PresetInit ==
    /\ \E name \in PresetNames :
          /\ bound = name
          /\ config = validate_config(PRESETS_as_defined[name])
          /\ given_empty = NoneEnabled(PRESETS_as_defined[name])
          /\ PRESETS = [PRESETS_as_defined EXCEPT ![name] = config]
    /\ pc = "idle"
    /\ max_attempts = 0
    /\ attempt = 0
    /\ composed = 0
    /\ result = NoResult
    /\ outcome = "none"
    /\ NoScorer
    /\ NoCategoryManager
    /\ NoVaultService /\ NoFilter /\ NoShuffle

\* variant: the preset becomes the working configuration, the generator keeps
\* the object it was bound to
LoadPreset_without_update(name) ==
    /\ Quiescent
    /\ bound' = name
    /\ PreCheck(config, MaxAttempts)
    /\ UNCHANGED <<config, given_empty, PRESETS>>

\* _load_preset(name): self.config = PRESETS[name], then _generate_password():
\* update_config(self.config) and generate_password() with the default budget
LoadPreset(name) ==
    /\ Quiescent
    /\ bound' = name
    /\ config' = validate_config(PRESETS[name])
    /\ given_empty' = NoneEnabled(PRESETS[name])
    /\ PRESETS' = [PRESETS EXCEPT ![name] = config']
    /\ PreCheck(config', MaxAttempts)

PresetNext ==
    \/ \E name \in PresetNames : LoadPreset(name) /\ UNCHANGED <<score_vars, category_vars, vault_vars, step_vars>>
    \/ update_config /\ UNCHANGED <<score_vars, category_vars, vault_vars, step_vars>>
    \/ \E cls \in ClassSet : EditUse(cls) /\ UNCHANGED <<score_vars, category_vars, vault_vars, step_vars>>
    \/ \E n \in 0..MaxAttempts : GenerateStart(n) /\ UNCHANGED <<score_vars, category_vars, vault_vars, step_vars>>
    \/ LoopIteration /\ UNCHANGED <<score_vars, category_vars, vault_vars, step_vars>>
    \/ AfterLoop /\ UNCHANGED <<score_vars, category_vars, vault_vars, step_vars>>
    \/ Discard /\ UNCHANGED <<score_vars, category_vars, vault_vars, step_vars>>

PresetSpec == PresetInit /\ [][PresetNext]_vars

---------------------------------------------------------------------------
(* The entropy scorer on its own: _adjust_entropy_for_patterns and           *)
(* _entropy_to_strength applied to a password and a base estimate            *)

\* passwords with and without repeated characters and runs of code points
ScoredChars == {"7", "8", "9", "a"}

ScoredPasswords == UNION {[1..n -> ScoredChars] : n \in 1..MaxScored}

\* the boundaries of the strength levels, in thousandths of a bit
LevelBoundaries == {25000, 35000, 50000, 70000, 90000}

\* base estimates at, next to and at twice the boundaries
BaseEntropies ==
    {0} \cup {b + d : b \in LevelBoundaries, d \in {-1, 0, 1}} \cup {2 * b : b \in LevelBoundaries}

ScoreInit ==
    /\ \E password \in ScoredPasswords, base_entropy \in BaseEntropies :
          scored = [password |-> password, base_entropy |-> base_entropy,
                    entropy |-> None, strength |-> None]
    /\ NoGenerator
    /\ NoCategoryManager
    /\ NoVaultService /\ NoFilter /\ NoShuffle

\* entropy = self._adjust_entropy_for_patterns(password, entropy)
AdjustEntropy ==
    /\ scored.entropy = None
    /\ scored' = [scored EXCEPT
                     !.entropy = adjust_entropy_for_patterns(scored.password, scored.base_entropy)]
    /\ UNCHANGED <<gen_vars, catalog_vars, category_vars, vault_vars, step_vars>>

\* strength = self._entropy_to_strength(entropy)
ClassifyStrength ==
    /\ scored.entropy # None
    /\ scored.strength = None
    /\ scored' = [scored EXCEPT !.strength = entropy_to_strength(scored.entropy)]
    /\ UNCHANGED <<gen_vars, catalog_vars, category_vars, vault_vars, step_vars>>

ScoreNext ==
    \/ AdjustEntropy
    \/ ClassifyStrength

ScoreSpec == ScoreInit /\ [][ScoreNext]_vars

---------------------------------------------------------------------------
(* CategoryManager (src/src/category_manager.py).  A name is a sequence of   *)
(* one-character strings; an optional argument is <<>> (None) or <<value>>.  *)

UNCATEGORIZED_ID == "uncategorized"

\* str(uuid.uuid4()), the n-th one handed out
Uuid(n) == <<"uuid-1", "uuid-2", "uuid-3", "uuid-4">>[n]

NotGiven == <<>>

Given(v) == <<v>>

Category(id, name, color, icon) == [id |-> id, name |-> name, color |-> color, icon |-> icon]

DEFAULT_COLOR == <<"#", "6", "c", "7", "5", "7", "d">>

DEFAULT_ICON == "folder"

\* str.strip(), str.lower()
RECURSIVE lstrip(_)
lstrip(s) == IF s # <<>> /\ Head(s) = " " THEN lstrip(Tail(s)) ELSE s

RECURSIVE rstrip(_)
rstrip(s) == IF s # <<>> /\ s[Len(s)] = " " THEN rstrip(SubSeq(s, 1, Len(s) - 1)) ELSE s

strip(s) == rstrip(lstrip(s))

lower(s) ==
    [i \in DOMAIN s |-> CASE s[i] = "W" -> "w"
                          [] s[i] = "U" -> "u"
                          [] s[i] = "K" -> "k"
                          [] OTHER -> s[i]]

\* _name_exists, over a categories dict
name_exists(cats, name) == \E id \in DOMAIN cats : lower(cats[id].name) = lower(name)

HexDigits == {"0", "1", "2", "3", "4", "5", "6", "7", "8", "9",
              "a", "b", "c", "d", "e", "f", "A", "B", "C", "D", "E", "F"}

\* _is_valid_color: '#', then 3 or 6 characters that int(.., 16) parses (for
\* the colours below: hexadecimal digits)
is_valid_color(color) ==
    /\ color # <<>> /\ color[1] = "#"
    /\ Len(color) \in {4, 7}
    /\ \A i \in 2..Len(color) : color[i] \in HexDigits

\* the dict without / with a key
Without(cats, id) == [i \in DOMAIN cats \ {id} |-> cats[i]]

With(cats, id, cat) == [i \in DOMAIN cats \cup {id} |-> IF i = id THEN cat ELSE cats[i]]

Uncategorized == Category(UNCATEGORIZED_ID, <<"U">>, DEFAULT_COLOR, "open folder")

\* CategoryManager(): Uncategorized and the default categories (one of them here)
CategoryInit ==
    /\ categories = With(With([i \in {} |-> 0], UNCATEGORIZED_ID, Uncategorized),
                         Uuid(1), Category(Uuid(1), <<"W">>,
                                           <<"#", "2", "1", "9", "6", "f", "3">>, "briefcase"))
    /\ uuids = 1
    /\ last_call = [op |-> "__init__", target |-> "", renaming |-> FALSE, ended |-> "returned"]
    /\ NoGenerator
    /\ NoScorer
    /\ NoVaultService /\ NoFilter /\ NoShuffle

Call(op, target, renaming, ended) ==
    [op |-> op, target |-> target, renaming |-> renaming, ended |-> ended]

\* the arguments callers pass
NameArgs == {<<>>, <<" ">>, <<"W">>, <<"w">>, <<" ", "W">>, <<"k">>}

ColorArgs == {<<"#", "f", "f", "f">>, <<"f", "f", "f">>}

IconArgs == {"star"}

IdArgs == {UNCATEGORIZED_ID} \cup {Uuid(n) : n \in 1..MaxUuids}

create_category(name, color, icon) ==
    /\ IF strip(name) = <<>> \/ name_exists(categories, name) \/ ~is_valid_color(color)
       THEN /\ last_call' = Call("create_category", "", FALSE, "ValueError")
            /\ UNCHANGED <<categories, uuids>>
       ELSE /\ uuids < MaxUuids
            /\ uuids' = uuids + 1
            /\ categories' = With(categories, Uuid(uuids'),
                                  Category(Uuid(uuids'), strip(name), color, icon))
            /\ last_call' = Call("create_category", Uuid(uuids'), FALSE, "returned")
    /\ UNCHANGED <<gen_vars, catalog_vars, score_vars, vault_vars, step_vars>>

\* update_category: the category object is written field after field, so a
\* ValueError for the colour leaves a new name in place
update_category(category_id, name, color, icon) ==
    /\ IF category_id \notin DOMAIN categories
          \/ (category_id = UNCATEGORIZED_ID /\ name # NotGiven)
          \/ (name # NotGiven /\ strip(name[1]) = <<>>)
          \/ (name # NotGiven /\ strip(name[1]) # categories[category_id].name
                             /\ name_exists(categories, strip(name[1])))
       THEN /\ last_call' = Call("update_category", category_id, name # NotGiven, "ValueError")
            /\ UNCHANGED categories
       ELSE LET category == categories[category_id]
                named == IF name # NotGiven THEN [category EXCEPT !.name = strip(name[1])]
                         ELSE category
            IN  IF color # NotGiven /\ ~is_valid_color(color[1])
                THEN /\ categories' = [categories EXCEPT ![category_id] = named]
                     /\ last_call' = Call("update_category", category_id, name # NotGiven,
                                          "ValueError")
                ELSE LET coloured == IF color # NotGiven THEN [named EXCEPT !.color = color[1]]
                                     ELSE named
                         updated == IF icon # NotGiven THEN [coloured EXCEPT !.icon = icon[1]]
                                    ELSE coloured
                     IN  /\ categories' = [categories EXCEPT ![category_id] = updated]
                         /\ last_call' = Call("update_category", category_id, name # NotGiven,
                                              "returned")
    /\ UNCHANGED <<uuids, gen_vars, catalog_vars, score_vars, vault_vars, step_vars>>

\* variant: every category can be deleted
delete_category_unguarded(category_id) ==
    /\ IF category_id \notin DOMAIN categories
       THEN /\ last_call' = Call("delete_category", category_id, FALSE, "returned False")
            /\ UNCHANGED categories
       ELSE /\ categories' = Without(categories, category_id)
            /\ last_call' = Call("delete_category", category_id, FALSE, "returned")
    /\ UNCHANGED <<uuids, gen_vars, catalog_vars, score_vars, vault_vars, step_vars>>

delete_category(category_id) ==
    /\ IF category_id = UNCATEGORIZED_ID
       THEN /\ last_call' = Call("delete_category", category_id, FALSE, "ValueError")
            /\ UNCHANGED categories
       ELSE IF category_id \notin DOMAIN categories
       THEN /\ last_call' = Call("delete_category", category_id, FALSE, "returned False")
            /\ UNCHANGED categories
       ELSE /\ categories' = Without(categories, category_id)
            /\ last_call' = Call("delete_category", category_id, FALSE, "returned")
    /\ UNCHANGED <<uuids, gen_vars, catalog_vars, score_vars, vault_vars, step_vars>>

\* the dicts from_dict is given: without the "categories" key, or with a list
\* of category dicts (an "id" may be missing)
CategoryDicts ==
    {[id |-> NotGiven, name |-> <<"w">>, color |-> DEFAULT_COLOR, icon |-> DEFAULT_ICON],
     [id |-> Given(UNCATEGORIZED_ID), name |-> <<"k">>, color |-> DEFAULT_COLOR, icon |-> "star"],
     [id |-> Given(Uuid(1)), name |-> <<"W">>, color |-> DEFAULT_COLOR, icon |-> DEFAULT_ICON]}

DictArgs ==
    {[has_categories |-> FALSE, categories |-> <<>>]} \cup
    {[has_categories |-> TRUE, categories |-> l] :
        l \in UNION {[1..n -> CategoryDicts] : n \in 0..2}}

\* the loop of from_dict: <<categories, uuids>> after the list is loaded
RECURSIVE load(_, _, _)
load(cats, list, n) ==
    IF list = <<>> THEN <<cats, n>>
    ELSE LET cat_data == Head(list)
             m == IF cat_data.id = NotGiven THEN n + 1 ELSE n
             id == IF cat_data.id = NotGiven THEN Uuid(m) ELSE cat_data.id[1]
         IN  load(With(cats, id, Category(id, cat_data.name, cat_data.color, cat_data.icon)),
                  Tail(list), m)

\* the ids uuid.uuid4() is asked for while the list is loaded
MissingIds(list) == Cardinality({i \in DOMAIN list : list[i].id = NotGiven})

from_dict(data) ==
    /\ uuids + MissingIds(data.categories) <= MaxUuids
    /\ LET loaded == IF data.has_categories
                      THEN load([i \in {} |-> 0], data.categories, uuids)
                      ELSE <<[i \in {} |-> 0], uuids>>
       IN  /\ categories' = IF UNCATEGORIZED_ID \notin DOMAIN loaded[1]
                            THEN With(loaded[1], UNCATEGORIZED_ID, Uncategorized)
                            ELSE loaded[1]
           /\ uuids' = loaded[2]
    /\ last_call' = Call("from_dict", "", FALSE, "returned")
    /\ UNCHANGED <<gen_vars, catalog_vars, score_vars, vault_vars, step_vars>>

CategoryNext ==
    \/ \E name \in NameArgs, color \in ColorArgs \cup {DEFAULT_COLOR},
          icon \in IconArgs \cup {DEFAULT_ICON} : create_category(name, color, icon)
    \/ \E category_id \in IdArgs,
          name \in {NotGiven} \cup {Given(n) : n \in NameArgs},
          color \in {NotGiven} \cup {Given(c) : c \in ColorArgs},
          icon \in {NotGiven} \cup {Given(i) : i \in IconArgs} :
          update_category(category_id, name, color, icon)
    \/ \E category_id \in IdArgs : delete_category(category_id)
    \/ \E data \in DictArgs : from_dict(data)

CategorySpec == CategoryInit /\ [][CategoryNext]_vars

\* a manager that is only edited (created, then create / update / delete calls)
CategoryEditNext ==
    \/ \E name \in NameArgs, color \in ColorArgs \cup {DEFAULT_COLOR},
          icon \in IconArgs \cup {DEFAULT_ICON} : create_category(name, color, icon)
    \/ \E category_id \in IdArgs,
          name \in {NotGiven} \cup {Given(n) : n \in NameArgs},
          color \in {NotGiven} \cup {Given(c) : c \in ColorArgs},
          icon \in {NotGiven} \cup {Given(i) : i \in IconArgs} :
          update_category(category_id, name, color, icon)
    \/ \E category_id \in IdArgs : delete_category(category_id)

CategoryEditSpec == CategoryInit /\ [][CategoryEditNext]_vars

---------------------------------------------------------------------------
(* The filter on its own: _get_filtered_chars applied to one pool *)

\* characters of the pools: members of confusable groups (two of them
\* ambiguous as well) and a character no filter touches
FilterAlphabet == {"O", "0", "8", "B", "i", "l", "a"}

FilterPools == UNION {[1..n -> FilterAlphabet] : n \in 0..MaxPool}

\* the fields of the configuration that _get_filtered_chars reads
FilterKw ==
    [exclude_ambiguous : BOOLEAN, exclude_similar : BOOLEAN,
     custom_excluded : {<<>>, <<"O", "a">>}]

FilterInit ==
    /\ filtering \in [config : FilterKw, chars : FilterPools, filtered : {<<>>}, called : {FALSE}]
    /\ NoGenerator /\ NoScorer /\ NoCategoryManager /\ NoVaultService /\ NoShuffle

FilterChars ==
    /\ ~filtering.called
    /\ filtering' = [filtering EXCEPT !.filtered = get_filtered_chars(filtering.config, filtering.chars),
                                      !.called = TRUE]
    /\ UNCHANGED <<gen_vars, catalog_vars, score_vars, category_vars, vault_vars, shuffling>>

FilterNext == FilterChars

FilterSpec == FilterInit /\ [][FilterNext]_vars

---------------------------------------------------------------------------
(* The shuffle on its own: the loop of _generate_password_attempt, one      *)
(* iteration per step, with Python's positions 0..len-1                     *)

ShuffleLists == UNION {[1..n -> {"a", "8", "!"}] : n \in 0..MaxShuffle}

ShuffleInit ==
    /\ shuffling \in [password_list : ShuffleLists, original : ShuffleLists, i : {0}, draws : {<<>>}]
    /\ shuffling.original = shuffling.password_list
    /\ NoGenerator /\ NoScorer /\ NoCategoryManager /\ NoVaultService /\ NoFilter

\* one iteration: j = secrets.randbelow(len(password_list)), then the swap
ShuffleStep(j) ==
    /\ shuffling.i < Len(shuffling.password_list)
    /\ j \in 0..(Len(shuffling.password_list) - 1)
    /\ shuffling' = [shuffling EXCEPT
                        !.password_list = Swap(@, shuffling.i + 1, j + 1),
                        !.i = @ + 1,
                        !.draws = Append(@, j)]
    /\ UNCHANGED <<gen_vars, catalog_vars, score_vars, category_vars, vault_vars, filtering>>

ShuffleNext == \E j \in 0..(MaxShuffle - 1) : ShuffleStep(j)

ShuffleSpec == ShuffleInit /\ [][ShuffleNext]_vars

---------------------------------------------------------------------------
(* VaultService over vault_manager, crypto_logic and the Vault model *)

NoKey == <<>>

NoVault == <<>>

\* CategoryManager() as the Vault's default_factory builds it
create_default_categories ==
    With(With([i \in {} |-> 0], UNCATEGORIZED_ID, Uncategorized),
         Uuid(1), Category(Uuid(1), <<"W">>, <<"#", "2", "1", "9", "6", "f", "3">>, "briefcase"))

\* Vault()
NewVault == [entries |-> <<>>, categories |-> create_default_categories]

\* what vault_manager.load_vault returns, what vault_manager.save_vault takes
load_vault_returns == <<"salt", "verification_hash", "nonce", "ciphertext">>

save_vault_parameters == <<"file_path", "salt", "verification_hash", "nonce", "ciphertext">>

\* the targets VaultService unpacks load_vault's value into, the arguments it
\* passes to save_vault
unlock_vault_unpacks == <<"salt", "nonce", "ciphertext">>

save_vault_arguments == <<"config.VAULT_FILE", "salt", "nonce", "ciphertext">>

\* vault_manager.load_vault: "returned" or the exception it raises
load_vault(file) ==
    CASE file.state = "absent" -> "VaultNotFoundError"
      [] file.state = "corrupted" -> "VaultCorruptedError"
      [] file.state = "valid" -> "returned"

\* salt, nonce, ciphertext = load_vault(..): "unpacked" or the exception
unpack_load_vault(file) ==
    IF load_vault(file) # "returned" THEN load_vault(file)
    ELSE IF Len(load_vault_returns) # Len(unlock_vault_unpacks) THEN "ValueError"
    ELSE "unpacked"

\* _save_vault_to_disk with the service holding k and v: "saved" or the exception
save_vault_to_disk(k, v, file, salt_given) ==
    IF k = NoKey \/ v = NoVault THEN "RuntimeError"
    ELSE IF ~salt_given /\ unpack_load_vault(file) # "unpacked" THEN unpack_load_vault(file)
    ELSE IF Len(save_vault_arguments) # Len(save_vault_parameters) THEN "TypeError"
    ELSE "saved"

\* the file save_vault writes for key k and vault v
Saved(k, v) == [state |-> "valid", password |-> k[1], data |-> v[1]]

\* the file after a _save_vault_to_disk that ended as 'ended'
FileAfter(ended, k, v) == IF ended = "saved" THEN Saved(k, v) ELSE vault_file

ServiceCall(op, ended) == [op |-> op, ended |-> ended]

\* the files a VaultService can find at construction
VaultFiles ==
    {[state |-> "absent"], [state |-> "corrupted"],
     [state |-> "valid", password |-> <<"p">>, data |-> NewVault]}

VaultInit ==
    /\ key = NoKey
    /\ vault = NoVault
    /\ vault_file \in VaultFiles
    /\ vault_exists = (vault_file.state # "absent")
    /\ service_call = ServiceCall("__init__", "returned")
    /\ locked = FALSE
    /\ NoGenerator /\ NoScorer /\ NoCategoryManager /\ NoFilter /\ NoShuffle

NotVault == <<gen_vars, catalog_vars, score_vars, category_vars, step_vars>>

PasswordArgs == {<<>>, <<"p">>, <<"q">>}

\* cleanup_entry_categories
cleanup_entry_categories(v) ==
    [v EXCEPT !.entries =
        [i \in DOMAIN v.entries |->
            IF v.entries[i].category_id \in DOMAIN v.categories THEN v.entries[i]
            ELSE [v.entries[i] EXCEPT !.category_id = UNCATEGORIZED_ID]]]

\* _create_vault
create_vault(password) ==
    IF password = <<>>
    THEN \* derive_key raises ValueError, caught
         /\ service_call' = ServiceCall("unlock_or_create", "returned False")
         /\ UNCHANGED <<key, vault, vault_exists, vault_file, locked>>
    ELSE LET ended == save_vault_to_disk(<<password>>, <<NewVault>>, vault_file, TRUE)
         IN  /\ key' = <<password>>
             /\ vault' = <<NewVault>>
             /\ vault_file' = FileAfter(ended, <<password>>, <<NewVault>>)
             /\ vault_exists' = IF ended = "saved" THEN TRUE ELSE vault_exists
             /\ locked' = IF ended = "saved" THEN FALSE ELSE locked
             /\ service_call' = ServiceCall("unlock_or_create",
                                    IF ended = "saved" THEN "returned True" ELSE "returned False")

\* _unlock_vault
unlock_vault(password) ==
    IF unpack_load_vault(vault_file) # "unpacked" \/ password = <<>>
    THEN \* load_vault, the unpacking or derive_key raises, caught
         /\ service_call' = ServiceCall("unlock_or_create", "returned False")
         /\ UNCHANGED <<key, vault, vault_exists, vault_file, locked>>
    ELSE /\ key' = <<password>>
         /\ IF password # vault_file.password
            THEN \* decrypt raises ValueError, caught
                 /\ service_call' = ServiceCall("unlock_or_create", "returned False")
                 /\ UNCHANGED <<vault, locked>>
            ELSE /\ vault' = <<cleanup_entry_categories(vault_file.data)>>
                 /\ locked' = FALSE
                 /\ service_call' = ServiceCall("unlock_or_create", "returned True")
         /\ UNCHANGED <<vault_exists, vault_file>>

unlock_or_create(password) ==
    /\ IF ~vault_exists THEN create_vault(password) ELSE unlock_vault(password)
    /\ UNCHANGED NotVault

\* the arguments callers pass
EntryIds == {"e1", "e2"}

Services == {"s1", "s2"}

CategoryIds == {UNCATEGORIZED_ID, Uuid(1)}

EntryData == [entry_id : EntryIds, service : Services, category_id : CategoryIds]

RenameArgs == {<<"W">>, <<"k">>, <<" ">>}

\* the call ended by _save_vault_to_disk: it returns, or the exception leaves it
AfterSave(op, returned, ended) ==
    ServiceCall(op, IF ended = "saved" THEN returned ELSE ended)

\* add_entry
add_entry(entry_data) ==
    /\ IF vault = NoVault
       THEN /\ service_call' = ServiceCall("add_entry", "RuntimeError")
            /\ UNCHANGED <<vault, vault_file>>
       ELSE LET v == [vault[1] EXCEPT !.entries = Append(@, entry_data)]
                ended == save_vault_to_disk(key, <<v>>, vault_file, FALSE)
            IN  /\ Len(vault[1].entries) < MaxEntries
                /\ vault' = <<v>>
                /\ vault_file' = FileAfter(ended, key, <<v>>)
                /\ service_call' = AfterSave("add_entry", "returned", ended)
    /\ UNCHANGED <<key, vault_exists, locked, NotVault>>

\* the index of the first entry with the id, 0 when there is none
FirstEntry(entries, entry_id) ==
    IF \E i \in DOMAIN entries : entries[i].entry_id = entry_id
    THEN CHOOSE i \in DOMAIN entries :
             /\ entries[i].entry_id = entry_id
             /\ \A j \in 1..(i - 1) : entries[j].entry_id # entry_id
    ELSE 0

\* update_entry
update_entry(entry_data) ==
    /\ IF vault = NoVault \/ FirstEntry(vault[1].entries, entry_data.entry_id) = 0
       THEN /\ service_call' = ServiceCall("update_entry", "returned None")
            /\ UNCHANGED <<vault, vault_file>>
       ELSE LET i == FirstEntry(vault[1].entries, entry_data.entry_id)
                v == [vault[1] EXCEPT !.entries[i] = entry_data]
                ended == save_vault_to_disk(key, <<v>>, vault_file, FALSE)
            IN  /\ vault' = <<v>>
                /\ vault_file' = FileAfter(ended, key, <<v>>)
                /\ service_call' = AfterSave("update_entry", "returned", ended)
    /\ UNCHANGED <<key, vault_exists, locked, NotVault>>

\* delete_entry
delete_entry(entry_id) ==
    /\ IF vault = NoVault
       THEN /\ service_call' = ServiceCall("delete_entry", "returned False")
            /\ UNCHANGED <<vault, vault_file>>
       ELSE LET kept == SelectSeq(vault[1].entries, LAMBDA e : e.entry_id # entry_id)
                v == [vault[1] EXCEPT !.entries = kept]
                ended == save_vault_to_disk(key, <<v>>, vault_file, FALSE)
            IN  IF Len(kept) < Len(vault[1].entries)
                THEN /\ vault' = <<v>>
                     /\ vault_file' = FileAfter(ended, key, <<v>>)
                     /\ service_call' = AfterSave("delete_entry", "returned True", ended)
                ELSE /\ service_call' = ServiceCall("delete_entry", "returned False")
                     /\ UNCHANGED <<vault, vault_file>>
    /\ UNCHANGED <<key, vault_exists, locked, NotVault>>

\* add_category: it calls category_manager.add_category, and CategoryManager
\* has create_category and no add_category
add_category(name) ==
    /\ service_call' = ServiceCall("add_category",
                           IF vault = NoVault THEN "RuntimeError" ELSE "AttributeError")
    /\ UNCHANGED <<key, vault, vault_exists, vault_file, locked, NotVault>>

\* CategoryManager.update_category(cat_id, new_name) raises ValueError
rename_raises(cats, cat_id, new_name) ==
    \/ cat_id \notin DOMAIN cats
    \/ cat_id = UNCATEGORIZED_ID
    \/ strip(new_name) = <<>>
    \/ (strip(new_name) # cats[cat_id].name /\ name_exists(cats, strip(new_name)))

\* VaultService.update_category
service_update_category(cat_id, new_name) ==
    /\ IF vault = NoVault
       THEN /\ service_call' = ServiceCall("update_category", "returned None")
            /\ UNCHANGED <<vault, vault_file>>
       ELSE IF rename_raises(vault[1].categories, cat_id, new_name)
       THEN /\ service_call' = ServiceCall("update_category", "ValueError")
            /\ UNCHANGED <<vault, vault_file>>
       ELSE LET v == [vault[1] EXCEPT !.categories[cat_id].name = strip(new_name)]
                ended == save_vault_to_disk(key, <<v>>, vault_file, FALSE)
            IN  /\ vault' = <<v>>
                /\ vault_file' = FileAfter(ended, key, <<v>>)
                /\ service_call' = AfterSave("update_category", "returned", ended)
    /\ UNCHANGED <<key, vault_exists, locked, NotVault>>

\* VaultService.delete_category: the entries of the category are moved first
service_delete_category(cat_id) ==
    /\ IF vault = NoVault
       THEN /\ service_call' = ServiceCall("delete_category", "RuntimeError")
            /\ UNCHANGED <<vault, vault_file>>
       ELSE LET moved == [i \in DOMAIN vault[1].entries |->
                             IF vault[1].entries[i].category_id = cat_id
                             THEN [vault[1].entries[i] EXCEPT !.category_id = UNCATEGORIZED_ID]
                             ELSE vault[1].entries[i]]
                cats == vault[1].categories
                v == [entries |-> moved,
                      categories |-> IF cat_id \in DOMAIN cats THEN Without(cats, cat_id)
                                     ELSE cats]
                ended == save_vault_to_disk(key, <<v>>, vault_file, FALSE)
            IN  IF cat_id = UNCATEGORIZED_ID
                THEN /\ service_call' = ServiceCall("delete_category", "ValueError")
                     /\ UNCHANGED <<vault, vault_file>>
                ELSE /\ vault' = <<v>>
                     /\ vault_file' = FileAfter(ended, key, <<v>>)
                     /\ service_call' = AfterSave("delete_category", "returned", ended)
    /\ UNCHANGED <<key, vault_exists, locked, NotVault>>

\* lock
lock ==
    /\ key' = NoKey
    /\ vault' = NoVault
    /\ locked' = TRUE
    /\ service_call' = ServiceCall("lock", "returned")
    /\ UNCHANGED <<vault_exists, vault_file, NotVault>>

VaultNext ==
    \/ \E password \in PasswordArgs : unlock_or_create(password)
    \/ \E entry_data \in EntryData : add_entry(entry_data)
    \/ \E entry_data \in EntryData : update_entry(entry_data)
    \/ \E entry_id \in EntryIds : delete_entry(entry_id)
    \/ \E name \in RenameArgs : add_category(name)
    \/ \E cat_id \in CategoryIds \cup {Uuid(2)}, new_name \in RenameArgs :
          service_update_category(cat_id, new_name)
    \/ \E cat_id \in CategoryIds \cup {Uuid(2)} : service_delete_category(cat_id)
    \/ lock

VaultSpec == VaultInit /\ [][VaultNext]_vars

---------------------------------------------------------------------------
(* Claims *)

Returned == pc = "returned"

Password == result.password

\* the count of a class in a string, by the class test of the distribution
CountOf(password, cls) ==
    Cardinality({i \in DOMAIN password :
        CASE cls = "uppercase" -> In(password[i], UPPERCASE)
          [] cls = "lowercase" -> ~In(password[i], UPPERCASE) /\ In(password[i], LOWERCASE)
          [] cls = "numbers" -> ~In(password[i], UPPERCASE \o LOWERCASE) /\ In(password[i], NUMBERS)
          [] cls = "special" -> ~In(password[i], UPPERCASE \o LOWERCASE \o NUMBERS)
                                /\ In(password[i], config.special_chars)})

SumOfEnabledMins ==
    LET m(cls) == IF Use(config, cls) THEN MinOf(config, cls) ELSE 0
    IN  m("uppercase") + m("lowercase") + m("numbers") + m("special")

HasWarning(kind) == \E i \in DOMAIN result.warnings : result.warnings[i].kind = kind

\* C1: for every configuration that passes the pre-check, the password returned
\* (Satisfied or Degraded) has exactly config.length characters.
C1_ReturnedLengthIsConfigLength ==
    (Returned /\ outcome \in {"Satisfied", "Degraded"}) => Len(Password) = config.length

\* C2: in a result with satisfied_constraints = true, the count of every enabled
\* class is at least its min_count and, when a maximum is set, at most its max_count.
C2_SatisfiedWithinBounds ==
    (Returned /\ result.satisfied_constraints) =>
        \A cls \in ClassSet :
            Use(config, cls) =>
                /\ CountOf(Password, cls) >= MinOf(config, cls)
                /\ MaxOf(config, cls) # None => CountOf(Password, cls) <= MaxOf(config, cls)

C2_Witness ==
    /\ Returned /\ result.satisfied_constraints /\ Len(Password) = 2
    /\ \E cls \in ClassSet :
          Use(config, cls) /\ MinOf(config, cls) > 0 /\ MaxOf(config, cls) # None

\* C3: when the enabled classes' minimums sum to more than config.length, the call
\* never enters the loop: it returns Rejected with no candidate composed,
\* satisfied_constraints = false, entropy 0 and the reason among the warnings.
C3_MinSumRejected ==
    SumOfEnabledMins > config.length =>
        /\ pc \in {"idle", "returned"}
        /\ Returned =>
              /\ outcome = "Rejected"
              /\ composed = 0
              /\ ~result.satisfied_constraints
              /\ result.entropy = 0
              /\ Password = <<>>
              /\ HasWarning("min_exceeds_length")

C3_Witness ==
    /\ Returned /\ outcome = "Rejected"
    /\ SumOfEnabledMins > config.length
    /\ config.min_uppercase > 0 /\ config.min_lowercase > 0

\* C4: generate_password never raises: every call ends Rejected, Satisfied or Degraded.
C4_NeverRaises == pc # "raised"

\* C5: when every candidate of the loop failed the post-check, the call returns
\* Degraded with a non-empty password, satisfied_constraints = false and the
\* exhaustion warning.
C5_DegradedIsUsable ==
    (outcome = "Degraded" /\ composed > 1) =>
        /\ Password # <<>>
        /\ ~result.satisfied_constraints
        /\ HasWarning("attempts_exhausted")

\* C6: when a class's minimum exceeds its maximum the pre-check fails: the call
\* returns Rejected without composing a candidate.
C6_MinOverMaxRejected ==
    (\E cls \in ClassSet : MaxOf(config, cls) # None /\ MinOf(config, cls) > MaxOf(config, cls)) =>
        /\ pc \in {"idle", "returned"}
        /\ Returned => (outcome = "Rejected" /\ composed = 0)

C8_NoExcludedCharacter ==
    Returned =>
        \A i \in DOMAIN Password :
            /\ config.exclude_ambiguous => Password[i] \notin {"0", "O", "o", "I", "l", "1"}
            /\ ~In(Password[i], config.custom_excluded)

C8_Witness ==
    /\ Returned /\ outcome = "Degraded" /\ Len(Password) = 2
    /\ config.exclude_ambiguous /\ config.use_uppercase /\ config.min_uppercase > 0

\* C9 as stated: a disabled class has count 0 in every returned password.
C9_DisabledClassAbsent ==
    Returned => \A cls \in ClassSet : ~Use(config, cls) => CountOf(Password, cls) = 0

\* C9 amended: a disabled class has count 0 in every returned password, whatever
\* its min_count, unless the Special class is enabled and special_chars itself
\* holds a character of that (Uppercase, Lowercase or Digit) class.
C9_DisabledClassAbsentUnlessInSpecialPool ==
    Returned =>
        \A cls \in ClassSet :
            (/\ ~Use(config, cls)
             /\ \/ cls = "special"
                \/ ~config.use_special
                \/ Chars(config.special_chars) \cap Chars(Pool(config, cls)) = {})
            => CountOf(Password, cls) = 0

C9_Witness ==
    /\ Returned /\ Len(Password) = 2
    /\ ~config.use_uppercase /\ config.min_uppercase > 0
    /\ config.use_special /\ config.special_chars # SPECIAL_DEFAULT

\* C10: in every result with satisfied_constraints = true the four class counts of
\* character_distribution sum to len(password).
C10_DistributionSumsToLength ==
    (Returned /\ result.satisfied_constraints) =>
        result.character_distribution["uppercase"] + result.character_distribution["lowercase"]
        + result.character_distribution["numbers"] + result.character_distribution["special"]
        = Len(Password)

C10_Witness ==
    /\ Returned /\ result.satisfied_constraints /\ Len(Password) = 2
    /\ \E i \in DOMAIN Password : Password[i] \notin Chars(SPECIAL_DEFAULT)
                                   /\ ClassOfChar(config, Password[i]) = "special"

\* the High Security preset with the field values it was defined with
HighSecurity == PRESETS_as_defined["High Security"]

FourCountsOf(password) ==
    CountOf(password, "uppercase") + CountOf(password, "lowercase")
    + CountOf(password, "numbers") + CountOf(password, "special")

\* C11 as stated: with the High Security preset every generate_password call
\* returns satisfied_constraints = true, each of the four class counts at least
\* the preset's minimum and the four counts summing to the preset's length.
C11_HighSecurityAlwaysSatisfied ==
    (Returned /\ config = HighSecurity) =>
        /\ result.satisfied_constraints
        /\ \A cls \in ClassSet : CountOf(Password, cls) >= MinOf(HighSecurity, cls)
        /\ FourCountsOf(Password) = HighSecurity.length

\* C11 amended: with the High Security preset every generate_password call
\* returns a password whose four class counts are each at least the preset's
\* minimum and sum to the preset's length; a call with max_attempts >= 1 returns
\* it as Satisfied from its first candidate, a call with max_attempts = 0 skips
\* the loop and returns it as Degraded with satisfied_constraints = false.
C11_HighSecuritySatisfiedGivenAnAttempt ==
    /\ []((Returned /\ config = HighSecurity) =>
            /\ composed = 1
            /\ result.satisfied_constraints = (outcome = "Satisfied")
            /\ \A cls \in ClassSet : CountOf(Password, cls) >= MinOf(HighSecurity, cls)
            /\ FourCountsOf(Password) = HighSecurity.length)
    /\ [][(pc = "loop" /\ config = HighSecurity) =>
            /\ pc' = "returned"
            /\ (max_attempts >= 1) => outcome' = "Satisfied"
            /\ (max_attempts = 0) => outcome' = "Degraded"]_vars

C11_Witness ==
    /\ Returned /\ bound = "High Security" /\ config = HighSecurity
    /\ outcome = "Satisfied" /\ result.satisfied_constraints
    /\ CountOf(Password, "special") = 2

\* C12: the catalog is immutable: whatever presets are selected, whatever fields
\* of the working configuration are edited, whatever update_config and
\* generate_password calls are made, every entry of PRESETS keeps the field
\* values it was defined with.
C12_CatalogImmutable == PRESETS = PRESETS_as_defined

\* C13: the engine only reads the configuration it is given: an object handed to
\* the constructor or to update_config with no class enabled still has none
\* afterwards, and no step of a generate_password call changes the bound
\* configuration.
C13_EngineOnlyReadsConfig ==
    /\ [](given_empty => NoneEnabled(config))
    /\ [][(pc # "idle" \/ pc' # "idle") => config' = config]_vars

\* C14: after the constructor or update_config is given a configuration with no
\* class enabled, the bound configuration has use_lowercase = true (and so at
\* least one class enabled); update_config switches on Lowercase and nothing else.
C14_LowercaseAutoEnabled ==
    /\ [](given_empty => (config.use_lowercase /\ ~NoneEnabled(config)))
    /\ [][(NoneEnabled(config) /\ given_empty') =>
            config' = [config EXCEPT !.use_lowercase = TRUE]]_vars

C14_Witness ==
    /\ given_empty /\ config.use_lowercase
    /\ Returned /\ outcome = "Satisfied" /\ Len(Password) = 2

\* C15: update_config(c) replaces the bound configuration: the generator is
\* bound to the object last handed over, a newly handed-over object replaces the
\* previous one wholesale, and every result returned afterwards is computed from
\* that object's length, classes, bounds and exclusions.
C15_UpdateConfigReplacesBound ==
    /\ [](config = PRESETS[bound])
    /\ [][bound' # bound => config' = validate_config(PRESETS[bound'])]_vars
    /\ [](Returned =>
            LET c == PRESETS[bound]
            IN  CASE outcome = "Rejected" ->
                       /\ ~validate_constraints(c)[1]
                       /\ result = RejectedResult(validate_constraints(c)[2])
                  [] outcome = "Satisfied" ->
                       /\ satisfies_constraints(c, Password)
                       /\ Len(Password) = c.length
                       /\ Chars(Password) \subseteq Chars(all_chars(c))
                       /\ result = SatisfiedResult(c, Password)
                  [] outcome = "Degraded" ->
                       /\ Len(Password) \in {0, c.length}
                       /\ Chars(Password) \subseteq Chars(all_chars(c))
                       /\ \E n \in 0..MaxAttempts : result = DegradedResult(c, Password, n))

C15_Witness ==
    /\ bound = "PIN" /\ config = PRESETS_as_defined["PIN"]
    /\ PRESETS["High Security"] # HighSecurity
    /\ Returned /\ outcome = "Satisfied" /\ Password = <<"8", "8", "8", "8">>

\* C16: the strength level is a total function of the entropy with each boundary
\* in the higher level: below 25 VERY_WEAK, [25,35) WEAK, [35,50) FAIR,
\* [50,70) GOOD, [70,90) STRONG, from 90 on EXCELLENT; the level never decreases
\* when the entropy grows.
C16_StrengthLevels ==
    scored.strength # None =>
        LET e == scored.entropy
            level == scored.strength
        IN  /\ level \in {VERY_WEAK, WEAK, FAIR, GOOD, STRONG, EXCELLENT}
            /\ (level = VERY_WEAK) = (e < 25000)
            /\ (level = WEAK) = (25000 <= e /\ e < 35000)
            /\ (level = FAIR) = (35000 <= e /\ e < 50000)
            /\ (level = GOOD) = (50000 <= e /\ e < 70000)
            /\ (level = STRONG) = (70000 <= e /\ e < 90000)
            /\ (level = EXCELLENT) = (90000 <= e)
            /\ \A smaller \in BaseEntropies :
                   smaller <= e => entropy_to_strength(smaller) <= level

C16_Witness ==
    /\ scored.strength = GOOD /\ scored.entropy = 50000
    /\ scored.base_entropy = 100000

\* C17: for a non-empty password and a non-negative base estimate the adjusted
\* entropy lies between 0 and the base estimate: the repetition factor
\* (distinct characters / length) is at most 1, the sequential penalty lies in
\* [0, 0.5], and after each of the two factors the estimate has not grown.
C17_AdjustedWithinBase ==
    scored.entropy # None =>
        LET password == scored.password
            penalty == calculate_sequential_penalty(password)
            unique_chars == Cardinality(Chars(password))
        IN  /\ 0 <= scored.entropy /\ scored.entropy <= scored.base_entropy
            /\ 1 <= unique_chars /\ unique_chars <= Len(password)
            /\ 0 <= penalty[1] /\ penalty[2] > 0 /\ 2 * penalty[1] <= penalty[2]
            /\ scored.entropy * Len(password) <= scored.base_entropy * unique_chars
            /\ (unique_chars = Len(password) /\ penalty[1] = 0) =>
                   scored.entropy = scored.base_entropy

C17_Witness ==
    /\ scored.entropy # None /\ scored.base_entropy = 70000
    /\ Cardinality(Chars(scored.password)) < Len(scored.password)
    /\ calculate_sequential_penalty(scored.password)[1] > 0
    /\ scored.entropy > 0 /\ scored.entropy < 35000

\* C18: the length every generate_password call uses lies within
\* [min_length, max_length]: the constructor of the configuration clamps the
\* requested length, and the in-place edits between calls keep it there.
C18_LengthWithinRange ==
    /\ config.min_length <= config.length
    /\ config.length <= config.max_length
    /\ (Returned /\ outcome \in {"Satisfied", "Degraded"}) => Len(Password) <= config.max_length

C18_Witness ==
    /\ Returned /\ outcome = "Satisfied"
    /\ config.length = config.max_length /\ config.min_length < config.max_length
    /\ Len(Password) = config.length

\* C19: when an enabled class's filtered pool is empty and generation proceeds,
\* the returned result (Satisfied or Degraded) carries the pre-check's warning
\* that names this class.
C19_EmptyPoolWarningKept ==
    (Returned /\ outcome \in {"Satisfied", "Degraded"}) =>
        \A cls \in ClassSet :
            (Use(config, cls) /\ ~HasChars(config, cls)) =>
                \E i \in DOMAIN result.warnings :
                    /\ result.warnings[i].kind = "no_chars_after_filtering"
                    /\ result.warnings[i].cls = cls

\* C20: after any sequence of create_category, update_category, delete_category
\* and from_dict calls the category with id 'uncategorized' exists; deleting it
\* and renaming it by update_category raise ValueError and leave the categories
\* as they were.
C20_UncategorizedAlwaysExists ==
    /\ [](/\ UNCATEGORIZED_ID \in DOMAIN categories
          /\ categories[UNCATEGORIZED_ID].id = UNCATEGORIZED_ID)
    /\ [][(/\ last_call'.target = UNCATEGORIZED_ID
            /\ \/ last_call'.op = "delete_category"
               \/ last_call'.op = "update_category" /\ last_call'.renaming)
           => (last_call'.ended = "ValueError" /\ categories' = categories)]_vars

C20_Witness ==
    /\ last_call = Call("update_category", UNCATEGORIZED_ID, TRUE, "ValueError")
    /\ categories[UNCATEGORIZED_ID].name = <<"k">>
    /\ Cardinality(DOMAIN categories) = 1

\* C21: after any sequence of create_category and update_category calls no two
\* categories of the manager have names that are equal ignoring case.
C21_NamesUniqueIgnoringCase ==
    \A a, b \in DOMAIN categories :
        a # b => lower(categories[a].name) # lower(categories[b].name)

\* C22: lock() leaves the service with key = None and vault = None, and from
\* then until an unlock_or_create returns True no entry or category operation
\* changes or saves a vault: add_entry, add_category and delete_category raise
\* RuntimeError, update_entry and update_category return None, delete_entry
\* returns False.
C22_LockedServiceLeavesVaultAlone ==
    [][/\ service_call'.op = "lock" => (key' = NoKey /\ vault' = NoVault)
       /\ (locked /\ service_call'.op \in {"add_entry", "add_category", "delete_category"}) =>
              (service_call'.ended = "RuntimeError" /\ UNCHANGED <<vault, vault_file>>)
       /\ (locked /\ service_call'.op \in {"update_entry", "update_category"}) =>
              (service_call'.ended = "returned None" /\ UNCHANGED <<vault, vault_file>>)
       /\ (locked /\ service_call'.op = "delete_entry") =>
              (service_call'.ended = "returned False" /\ UNCHANGED <<vault, vault_file>>)
      ]_vars

\* C30: the service holds a key only together with a vault, and after an
\* unlock_or_create that returned False it holds neither.
C30_KeyOnlyWithVault ==
    /\ key # NoKey => vault # NoVault
    /\ (service_call = ServiceCall("unlock_or_create", "returned False")) =>
           (key = NoKey /\ vault = NoVault)

\* C23: the loop composes and checks one candidate per iteration and at most
\* max_attempts of them; it stops at the first candidate that passes the
\* post-check: the Satisfied result holds that candidate, with the entropy,
\* strength and distribution of that candidate, and nothing is composed after it.
C23_LoopStopsAtFirstPass ==
    [][/\ pc = "loop" =>
              /\ composed = attempt /\ attempt <= max_attempts
              /\ composed' \in {composed, composed + 1}
              /\ attempt < max_attempts => attempt' \in {attempt, attempt + 1, 0}
       /\ (pc = "loop" /\ outcome' = "Satisfied") =>
              /\ composed' = attempt + 1 /\ composed' <= max_attempts
              /\ result'.password \in generate_password_attempt(config)
              /\ satisfies_constraints(config, result'.password)
              /\ result'.satisfied_constraints
              /\ <<result'.strength, result'.entropy>> =
                     calculate_strength_and_entropy(config, result'.password)
              /\ result'.character_distribution =
                     get_character_distribution(config, result'.password)
       /\ pc = "returned" => (composed' = composed \/ pc' = "idle")
      ]_vars

C23_Witness ==
    /\ Returned /\ outcome = "Satisfied" /\ composed = 2
    /\ Len(Password) = 2

\* the counts of the enabled classes of password lie within [min, max or unbounded]
EnabledClassesInRange(c, password) ==
    \A cls \in ClassSet :
        Use(c, cls) =>
            /\ get_character_distribution(c, password)[cls] >= MinOf(c, cls)
            /\ MaxOf(c, cls) # None => get_character_distribution(c, password)[cls] <= MaxOf(c, cls)

\* C24: the post-check of a candidate is true exactly when the count of every
\* enabled class lies within [min_count, max_count or unbounded]; the minimum
\* or maximum of a disabled class never makes it fail.
C24_PostCheckCountsEnabledClasses ==
    \A password \in generate_password_attempt(config) :
        satisfies_constraints(config, password) <=> EnabledClassesInRange(config, password)

\* the characters of password that the filtered pool of cls holds
FromPool(c, password, cls) ==
    Cardinality({i \in DOMAIN password : In(password[i], get_filtered_chars(c, Pool(c, cls)))})

\* C25: for a configuration that passes the pre-check, no candidate is
\* assembled longer than config.length, and every candidate holds at least
\* min_count characters of each enabled class whose filtered pool is not empty.
C25_TruncationKeepsMinimums ==
    validate_constraints(config)[1] =>
        /\ \A l \in Assembled(config) : Len(l) <= config.length
        /\ \A password \in generate_password_attempt(config) :
              \A cls \in ClassSet :
                  (Use(config, cls) /\ get_filtered_chars(config, Pool(config, cls)) # <<>>) =>
                      FromPool(config, password, cls) >= MinOf(config, cls)

\* the characters of s that are members of the group
MembersIn(s, group) == {c \in Chars(group) : In(c, s)}

\* how often ch occurs in s
Occurrences(s, ch) == Cardinality({i \in DOMAIN s : s[i] = ch})

\* the characters that are in no confusable group
OutsideGroups(s) ==
    SelectSeq(s, LAMBDA c : \A g \in DOMAIN SIMILAR_GROUPS : ~In(c, SIMILAR_GROUPS[g]))

\* the filtered pool holds one member of every group that 'pool' has a member
\* of, none of the other groups, and the characters of 'pool' outside the groups
CollapsedFrom(pool, filtered) ==
    /\ \A g \in DOMAIN SIMILAR_GROUPS :
          IF MembersIn(pool, SIMILAR_GROUPS[g]) # {}
          THEN /\ Cardinality(MembersIn(filtered, SIMILAR_GROUPS[g])) = 1
               /\ MembersIn(filtered, SIMILAR_GROUPS[g]) \subseteq MembersIn(pool, SIMILAR_GROUPS[g])
               /\ \A c \in MembersIn(filtered, SIMILAR_GROUPS[g]) : Occurrences(filtered, c) = 1
          ELSE MembersIn(filtered, SIMILAR_GROUPS[g]) = {}
    /\ OutsideGroups(filtered) = OutsideGroups(pool)

\* C26 as stated: with exclude_similar and no custom exclusions, the filtered
\* pool holds exactly one member of every confusable group that the pool has a
\* member of, no member of the other groups, and every character of the pool
\* that is outside the groups.
C26_OneMemberOfEveryGroupInThePool ==
    (filtering.called /\ filtering.config.exclude_similar
        /\ filtering.config.custom_excluded = <<>>) =>
        CollapsedFrom(filtering.chars, filtering.filtered)

\* C26: with exclude_similar and no custom exclusions, the filtered pool holds
\* exactly one member, once, of every confusable group of which the pool left
\* by the ambiguous step has a member, no member of the other groups, and
\* every character of that pool that is outside the groups.
C26_OneMemberOfEveryGroupAfterAmbiguous ==
    (filtering.called /\ filtering.config.exclude_similar
        /\ filtering.config.custom_excluded = <<>>) =>
        CollapsedFrom(IF filtering.config.exclude_ambiguous
                      THEN Remove(filtering.chars, AMBIGUOUS) ELSE filtering.chars,
                      filtering.filtered)

C26_Witness ==
    /\ filtering.called /\ filtering.config.exclude_similar
    /\ filtering.config.custom_excluded = <<>>
    /\ {"8", "B"} \subseteq Chars(filtering.chars)
    /\ In("a", filtering.chars)
    /\ Len(filtering.filtered) = 2

\* C27: the shuffle is a Fisher-Yates shuffle: it keeps the multiset of
\* characters, and the swap partner of a position is drawn only from the
\* positions not yet fixed, that position and those after it.
C27_FisherYates ==
    /\ \A ch \in Chars(shuffling.original) :
          Occurrences(shuffling.password_list, ch) = Occurrences(shuffling.original, ch)
    /\ \A k \in DOMAIN shuffling.draws : shuffling.draws[k] >= k - 1

\* C28: the pool the fill characters are drawn from holds exactly the
\* characters of the enabled classes' filtered pools.
C28_FillPoolIsUnionOfFilteredPools ==
    Chars(all_chars(config)) =
        UNION {Chars(get_filtered_chars(config, Pool(config, cls))) :
                  cls \in {k \in ClassSet : Use(config, k)}}

\* C29 as stated: in every result that is not Rejected, satisfied_constraints
\* is true exactly when the returned password passes the post-check.
C29_FlagAgreesWithPostCheck ==
    (Returned /\ outcome \in {"Satisfied", "Degraded"}) =>
        (result.satisfied_constraints <=> satisfies_constraints(config, Password))

\* C29: in every result that is not Rejected, satisfied_constraints is true
\* exactly when the call returned from the loop, and then the returned password
\* passes the post-check; the result returned after the loop carries false
\* whatever the post-check of its password would say.
C29_FlagTrueOnlyForCheckedPassword ==
    (Returned /\ outcome \in {"Satisfied", "Degraded"}) =>
        /\ result.satisfied_constraints <=> outcome = "Satisfied"
        /\ result.satisfied_constraints => satisfies_constraints(config, Password)

C29_Witness ==
    /\ Returned /\ outcome = "Degraded" /\ composed = 2
    /\ ~result.satisfied_constraints
    /\ satisfies_constraints(config, Password)

====
